---- MODULE Spec2Model ----
(***************************************************************************)
(* Model of radt/run/listeners/carbontracker_listener.py:                  *)
(* CarbonTrackerListener, a daemon thread that taps sys.stdout/sys.stderr, *)
(* detects epoch markers in the monitored process's output and drives a    *)
(* CarbonTracker session (epoch_start / epoch_end / stop).                 *)
(*                                                                         *)
(* Threads of the model:                                                   *)
(*   "run"     the listener thread executing run()                         *)
(*   "writer"  the thread of the monitored process that writes to the      *)
(*             tapped sys.stdout / sys.stderr                              *)
(*   the caller of terminate() (tpc)                                       *)
(* The code takes no lock anywhere, so every read or write of a shared     *)
(* attribute and every external call is one step of its thread, and steps  *)
(* of different threads interleave freely.  Program positions are named    *)
(* after the source line they are about to execute ("L145" = line 145 of   *)
(* _on_epoch_detected, "r224" = line 224 of run, "t261" = line 261 of      *)
(* terminate).                                                             *)
(*                                                                         *)
(* The CarbonTracker session and the metrics relay are external; the model *)
(* keeps what a test double in their place would observe: the call made by *)
(* the last step (call), the last call made on the session (session), the  *)
(* number of stop() calls and of shutdown epoch_end() calls, and the calls *)
(* made so far for as long as they follow the scenario of the spec (trace).*)
(* Any external call may raise.                                            *)
(*                                                                         *)
(* Time: the code uses time() only in the difference                       *)
(* time() - self.last_epoch_time and compares it with the threshold, so    *)
(* the model keeps that difference (since), counted in seconds and         *)
(* saturated at the threshold; last_epoch_time = time() sets it to 0.      *)
(*                                                                         *)
(* The stream taps (the OutputCapture classes of both files) and the       *)
(* start_capture / stop_capture pair of radt/run/listeners/                 *)
(* epoch_listener.py are modelled on their own, with text as sequences of  *)
(* characters over a small alphabet and the pattern list cut down to two   *)
(* patterns of the default list; specifications SpecTap and SpecCapture.   *)
(*                                                                         *)
(* The except clause of run() (lines 237-240) is not modelled as a         *)
(* position: the only call inside the loop's try is _on_epoch_detected,    *)
(* which catches every Exception of its external calls itself.             *)
(***************************************************************************)
EXTENDS Integers, Sequences, FiniteSets, TLC

\* ------------------------------------------------------------ parameters
\* self.max_epochs = int(os.getenv("RADT_MAX_EPOCH", 5)); the scenario of
\* the spec sets it to 3.
max_epochs == 3
\* Constructor argument epoch_duration_threshold (seconds).
epoch_duration_threshold == 2
\* self.current_epoch = -1 before the first epoch.
NoEpoch == -1

\* ---------------------------------------------------------------- bounds
\* Largest epoch number a matched line carries.
MaxEpochNum == 3
\* Number of matched lines the monitored process emits in one run.
MaxSignals == 2
\* Number of times terminate() is called in one run.
MaxTerminate == 2
\* Number of characters written to a tap in one run.
MaxText == 5
\* Number of start_capture() / stop_capture() calls on one EpochListener.
MaxCaptureCalls == 4

Threads == {"run", "writer"}

\* The scenario of the spec's testable properties: signals 0,1,1,2.
ScenarioScript == <<0, 1, 1, 2>>

VARIABLES
    current_epoch,   \* self.current_epoch
    since,           \* time() - self.last_epoch_time, saturated at the threshold
    stop_event,      \* self._stop_event.is_set()
    tapped,          \* sys.stdout / sys.stderr are OutputCapture objects
    capture_closed,  \* self.capture_file.closed
    rpc,             \* position of the listener thread in run()
    tpc,             \* position of the caller of terminate()
    nterm,           \* terminate() calls started so far
    cpc,             \* per thread: position inside _on_epoch_detected
    epoch,           \* per thread: argument `epoch` of _on_epoch_detected
    nsig,            \* matched lines emitted so far
    forced,          \* the fallback of run() has forced an epoch
    call,            \* the external call made by the last step, or NoCall
    session,         \* the last call made on the CarbonTracker session
    stops,           \* number of carbon_tracker.stop() calls so far
    closes,          \* number of epoch_end() calls made by shutdown code
    trace,           \* session calls so far while they follow ExpectedCalls
    \* two OutputCapture objects fed the same chunks: el_ is the one of
    \* epoch_listener.py, ct_ the one of carbontracker_listener.py
    written,         \* concatenation of the chunks written so far
    el_buffer,       \* self.buffer
    el_lines,        \* the lines handed to the pattern loop so far
    el_calls,        \* per line of the last write: the callback invocations
    ct_buffer,
    ct_lines,
    ct_calls,
    \* an EpochListener and the process-wide streams
    sys_stdout,      \* sys.stdout
    sys_stderr,      \* sys.stderr
    is_capturing,    \* self.is_capturing
    el_closed,       \* self.capture_file.closed
    prior_stdout,    \* what sys.stdout was when start_capture replaced it
    prior_stderr,    \* what sys.stderr was when start_capture replaced it
    ncap,            \* start_capture / stop_capture calls so far
    cap_op           \* the last call: "start", "stop", or "none"

listener == <<current_epoch, since, stop_event, tapped, capture_closed,
              rpc, tpc, nterm, cpc, epoch, nsig, forced,
              call, session, stops, closes, trace>>
taps == <<written, el_buffer, el_lines, el_calls, ct_buffer, ct_lines, ct_calls>>

capture == <<sys_stdout, sys_stderr, is_capturing, el_closed,
             prior_stdout, prior_stderr, ncap, cap_op>>

vars == <<listener, taps, capture>>

state == <<current_epoch, since, stop_event, tapped, capture_closed>>
frames == <<cpc, epoch>>
doubles == <<session, stops, closes, trace>>

Min(a, b) == IF a <= b THEN a ELSE b

\* ------------------------------------------------------- test doubles
NoCall == <<"none", NoEpoch, "none">>
Diverged == <<"diverged">>

\* The calls of the scenario, after the session is created in __init__:
\* start(0); end(0); start(1); end(1); start(2); end(2); stop.
ExpectedCalls ==
    << <<"epoch_start", 0>>, <<"epoch_end", 0>>,
       <<"epoch_start", 1>>, <<"epoch_end", 1>>,
       <<"epoch_start", 2>>, <<"epoch_end", 2>>,
       <<"stop", NoEpoch>> >>

IsPrefix(s, t) == Len(s) <= Len(t) /\ \A i \in 1..Len(s) : s[i] = t[i]

Follow(tr, c) ==
    IF tr = Diverged THEN Diverged
    ELSE IF IsPrefix(Append(tr, c), ExpectedCalls) THEN Append(tr, c)
    ELSE Diverged

\* Thread `by` calls `op`; e is the epoch the code's own log line gives it
\* (NoEpoch for stop).  by is "fallback" for the calls the listener thread
\* makes inside _on_epoch_detected, "shutdown" for those of run's finally.
Record(op, e, by) ==
    /\ call' = <<op, e, by>>
    /\ session' = IF op = "publish" THEN session ELSE <<op, e>>
    /\ stops' = IF op = "stop" THEN stops + 1 ELSE stops
    /\ closes' = IF op = "epoch_end" /\ by \in {"terminate", "shutdown"}
                   THEN closes + 1 ELSE closes
    /\ trace' = IF op = "publish" THEN trace ELSE Follow(trace, <<op, e>>)
    /\ UNCHANGED <<taps, capture>>

\* A step that makes no external call.
Quiet ==
    /\ call' = NoCall
    /\ UNCHANGED doubles
    /\ UNCHANGED <<taps, capture>>

Origin(t) == IF t = "run" THEN "fallback" ELSE t

\* epoch_listener.py lines 23-24: the streams the EpochListener found in
\* sys.stdout / sys.stderr when it was constructed.
original_stdout == <<"stream", "stdout">>
original_stderr == <<"stream", "stderr">>
\* What other code may assign to sys.stdout / sys.stderr.
Destinations == {<<"stream", "stdout">>, <<"stream", "stderr">>, <<"stream", "file">>}
\* OutputCapture(original, ...): a tap that forwards to original.
OutputCapture(original) == <<"tap", original[2]>>
NoStream == <<"none", "none">>

\* ------------------------------------------------------------------ Init
\* State after __init__ (lines 75-88, the session created at line 83) and
\* Thread.start().
Init ==
    /\ current_epoch = NoEpoch
    /\ since = 0
    /\ stop_event = FALSE
    /\ tapped = FALSE
    /\ capture_closed = FALSE
    /\ rpc = "r217"
    /\ tpc = "idle"
    /\ nterm = 0
    /\ cpc = [t \in Threads |-> "idle"]
    /\ epoch = [t \in Threads |-> NoEpoch]
    /\ nsig = 0
    /\ forced = FALSE
    /\ call = NoCall
    /\ session = <<"init", NoEpoch>>
    /\ stops = 0
    /\ closes = 0
    /\ trace = <<>>
    /\ written = <<>>
    /\ el_buffer = <<>>
    /\ el_lines = <<>>
    /\ el_calls = <<>>
    /\ ct_buffer = <<>>
    /\ ct_lines = <<>>
    /\ ct_calls = <<>>
    /\ sys_stdout = original_stdout
    /\ sys_stderr = original_stderr
    /\ is_capturing = FALSE
    /\ el_closed = FALSE
    /\ prior_stdout = NoStream
    /\ prior_stderr = NoStream
    /\ ncap = 0
    /\ cap_op = "none"

\* -------------------------------------------------- _on_epoch_detected
\* Entering _on_epoch_detected(n, line) on thread t.
Enter(t, n) ==
    /\ cpc' = [cpc EXCEPT ![t] = "L145"]
    /\ epoch' = [epoch EXCEPT ![t] = n]

Goto(t, l) == cpc' = [cpc EXCEPT ![t] = l] /\ UNCHANGED <<epoch, rpc>>

\* _on_epoch_detected returns to its caller: OutputCapture.write (line 117)
\* or run (line 232, which goes on to sleep at line 236).
Return(t) ==
    /\ cpc' = [cpc EXCEPT ![t] = "idle"]
    /\ epoch' = [epoch EXCEPT ![t] = NoEpoch]
    /\ rpc' = IF t = "run" THEN "r236" ELSE rpc

\* Variant of line 145 that accepts only higher epoch numbers
\* (if epoch > self.current_epoch).
OnEpoch_L145_gt(t) ==
    /\ cpc[t] = "L145"
    /\ IF epoch[t] > current_epoch THEN Goto(t, "L147") ELSE Return(t)
    /\ Quiet
    /\ UNCHANGED <<state, tpc, nterm, nsig, forced>>

\* line 145: if epoch != self.current_epoch
OnEpoch_L145(t) ==
    /\ cpc[t] = "L145"
    /\ IF epoch[t] # current_epoch THEN Goto(t, "L147") ELSE Return(t)
    /\ Quiet
    /\ UNCHANGED <<state, tpc, nterm, nsig, forced>>

\* line 147: if self.current_epoch >= 0
OnEpoch_L147(t) ==
    /\ cpc[t] = "L147"
    /\ Goto(t, IF current_epoch >= 0 THEN "L149" ELSE "L153")
    /\ Quiet
    /\ UNCHANGED <<state, tpc, nterm, nsig, forced>>

\* Variant of line 149 without the try: when epoch_end() raises, the
\* exception leaves _on_epoch_detected (the writer's write() call fails, the
\* listener thread lands in run's except clause and shuts down).
OnEpoch_L149_unguarded(t) ==
    /\ cpc[t] = "L149"
    /\ Record("epoch_end", current_epoch, Origin(t))
    /\ \E ok \in BOOLEAN :
          IF ok THEN Goto(t, "L150")
          ELSE /\ cpc' = [cpc EXCEPT ![t] = "idle"]
               /\ epoch' = [epoch EXCEPT ![t] = NoEpoch]
               /\ rpc' = IF t = "run" THEN "r244" ELSE rpc
    /\ UNCHANGED <<state, tpc, nterm, nsig, forced>>

\* line 149: self.carbon_tracker.epoch_end(), inside try (148-152): when it
\* raises, line 150 is skipped and line 152 logs the error.
OnEpoch_L149(t) ==
    /\ cpc[t] = "L149"
    /\ Record("epoch_end", current_epoch, Origin(t))
    /\ \E ok \in BOOLEAN : Goto(t, IF ok THEN "L150" ELSE "L153")
    /\ UNCHANGED <<state, tpc, nterm, nsig, forced>>

\* line 150: self.parse_and_log_metrics(self.current_epoch), same try: it
\* returns or raises, and line 153 follows either way.
OnEpoch_L150(t) ==
    /\ cpc[t] = "L150"
    /\ Record("publish", current_epoch, Origin(t))
    /\ Goto(t, "L153")
    /\ UNCHANGED <<state, tpc, nterm, nsig, forced>>

\* line 153: self.current_epoch = epoch
OnEpoch_L153(t) ==
    /\ cpc[t] = "L153"
    /\ current_epoch' = epoch[t]
    /\ Goto(t, "L155")
    /\ Quiet
    /\ UNCHANGED <<since, stop_event, tapped, capture_closed, tpc, nterm, nsig, forced>>

\* line 155: self.last_epoch_time = time()
OnEpoch_L155(t) ==
    /\ cpc[t] = "L155"
    /\ since' = 0
    /\ Goto(t, "L157")
    /\ Quiet
    /\ UNCHANGED <<current_epoch, stop_event, tapped, capture_closed,
                   tpc, nterm, nsig, forced>>

\* lines 156-159: try: self.carbon_tracker.epoch_start() except: log; the
\* function returns whether or not the call raised.
OnEpoch_L157(t) ==
    /\ cpc[t] = "L157"
    /\ Record("epoch_start", epoch[t], Origin(t))
    /\ Return(t)
    /\ UNCHANGED <<state, tpc, nterm, nsig, forced>>

OnEpochDetected(t) ==
    \/ OnEpoch_L145(t)
    \/ OnEpoch_L147(t)
    \/ OnEpoch_L149(t)
    \/ OnEpoch_L150(t)
    \/ OnEpoch_L153(t)
    \/ OnEpoch_L155(t)
    \/ OnEpoch_L157(t)

\* ------------------------------------------------ OutputCapture.write
\* The monitored process writes a line that one of the patterns matches
\* with epoch number n; the tap calls self.callback(epoch, line)
\* (lines 111-118).
Emit(n) ==
    /\ tapped
    /\ cpc["writer"] = "idle"
    /\ nsig' = nsig + 1
    /\ Enter("writer", n)
    /\ Quiet
    /\ UNCHANGED <<state, rpc, tpc, nterm, forced>>

\* Any matched line.
Signal ==
    /\ nsig < MaxSignals
    /\ \E n \in 0..MaxEpochNum : Emit(n)

\* The matched lines of the scenario, in order.
SignalScenario ==
    /\ nsig < Len(ScenarioScript)
    /\ Emit(ScenarioScript[nsig + 1])

\* --------------------------------------------------------------- time
\* One second passes while the threads do something else.
Tick ==
    /\ since < epoch_duration_threshold
    /\ since' = since + 1
    /\ Quiet
    /\ UNCHANGED <<current_epoch, stop_event, tapped, capture_closed,
                   rpc, tpc, nterm, frames, nsig, forced>>

\* ---------------------------------------------------------------- run
RunStep(next) ==
    /\ rpc' = next
    /\ UNCHANGED <<tpc, nterm, frames, nsig, forced>>

\* lines 125-126 (setup_output_capture, called at line 217): sys.stdout and
\* sys.stderr are replaced by OutputCapture objects.
Run_r217 ==
    /\ rpc = "r217"
    /\ tapped' = TRUE
    /\ RunStep("r218")
    /\ Quiet
    /\ UNCHANGED <<current_epoch, since, stop_event, capture_closed>>

\* line 218: mlflow.start_run(run_id=self.run_id).__enter__(), outside any
\* try: when it raises, run() is left and the thread ends.
Run_r218 ==
    /\ rpc = "r218"
    /\ \E ok \in BOOLEAN : RunStep(IF ok THEN "r219" ELSE "raised218")
    /\ Quiet
    /\ UNCHANGED state

\* line 219: self.carbon_tracker.epoch_start(), outside any try.  It opens
\* the epoch that line 220 numbers 0.
Run_r219 ==
    /\ rpc = "r219"
    /\ Record("epoch_start", 0, "run")
    /\ \E ok \in BOOLEAN : RunStep(IF ok THEN "r220" ELSE "raised219")
    /\ UNCHANGED state

\* line 220: self.current_epoch = 0
Run_r220 ==
    /\ rpc = "r220"
    /\ current_epoch' = 0
    /\ RunStep("r221")
    /\ Quiet
    /\ UNCHANGED <<since, stop_event, tapped, capture_closed>>

\* line 221: self.last_epoch_time = time()
Run_r221 ==
    /\ rpc = "r221"
    /\ since' = 0
    /\ RunStep("r224")
    /\ Quiet
    /\ UNCHANGED <<current_epoch, stop_event, tapped, capture_closed>>

\* line 224, left operand: while not self._stop_event.is_set()
Run_r224 ==
    /\ rpc = "r224"
    /\ RunStep(IF stop_event THEN "r244" ELSE "r224b")
    /\ Quiet
    /\ UNCHANGED state

\* line 224, right operand: and self.current_epoch < self.max_epochs
Run_r224b ==
    /\ rpc = "r224b"
    /\ RunStep(IF current_epoch < max_epochs THEN "r225" ELSE "r244")
    /\ Quiet
    /\ UNCHANGED state

\* Variant of line 228 that forces an epoch one second early.
Run_r225_early ==
    /\ rpc = "r225"
    /\ RunStep(IF since >= epoch_duration_threshold - 1 THEN "r230" ELSE "r236")
    /\ Quiet
    /\ UNCHANGED state

\* lines 225-228: time_since_last_epoch = time() - self.last_epoch_time;
\* if time_since_last_epoch >= self.epoch_duration_threshold.
\* (time() is read before last_epoch_time; a boundary applied between the
\* two reads gives a difference <= 0, which is the outcome of this step
\* taken right after that boundary.)
Run_r225 ==
    /\ rpc = "r225"
    /\ RunStep(IF since >= epoch_duration_threshold THEN "r230" ELSE "r236")
    /\ Quiet
    /\ UNCHANGED state

\* lines 230-232: forced_epoch = self.current_epoch + 1;
\* self._on_epoch_detected(forced_epoch, ...)
Run_r230 ==
    /\ rpc = "r230"
    /\ rpc' = "r232"
    /\ Enter("run", current_epoch + 1)
    /\ forced' = TRUE
    /\ Quiet
    /\ UNCHANGED <<state, tpc, nterm, nsig>>

\* line 236: sleep(1)
Run_r236 ==
    /\ rpc = "r236"
    /\ since' = Min(since + 1, epoch_duration_threshold)
    /\ RunStep("r224")
    /\ Quiet
    /\ UNCHANGED <<current_epoch, stop_event, tapped, capture_closed>>

\* finally, lines 243-251: try: self.carbon_tracker.epoch_end() except: log.
\* (The artifact upload of lines 247-251 is guarded by its own try and
\* touches none of the state above.)
Run_r244 ==
    /\ rpc = "r244"
    /\ Record("epoch_end", current_epoch, "shutdown")
    /\ RunStep("r252")
    /\ UNCHANGED state

\* line 252: self.carbon_tracker.stop(), unguarded inside finally: when it
\* raises, lines 253-254 are skipped and the thread ends.
Run_r252 ==
    /\ rpc = "r252"
    /\ Record("stop", NoEpoch, "shutdown")
    /\ \E ok \in BOOLEAN : RunStep(IF ok THEN "r253" ELSE "raised252")
    /\ UNCHANGED state

\* line 253: mlflow.end_run(), unguarded as well.
Run_r253 ==
    /\ rpc = "r253"
    /\ \E ok \in BOOLEAN : RunStep(IF ok THEN "r254" ELSE "raised253")
    /\ Quiet
    /\ UNCHANGED state

\* lines 131-134 (restore_output, called at line 254): sys.stdout and
\* sys.stderr are set back, the capture file is closed.
Run_r254 ==
    /\ rpc = "r254"
    /\ tapped' = FALSE
    /\ capture_closed' = TRUE
    /\ RunStep("done")
    /\ Quiet
    /\ UNCHANGED <<current_epoch, since, stop_event>>

Run ==
    \/ Run_r217 \/ Run_r218 \/ Run_r219 \/ Run_r220 \/ Run_r221
    \/ Run_r224 \/ Run_r224b \/ Run_r225 \/ Run_r230 \/ Run_r236
    \/ Run_r244 \/ Run_r252 \/ Run_r253 \/ Run_r254

\* ---------------------------------------------------------- terminate
TermStep(next) ==
    /\ tpc' = next
    /\ UNCHANGED <<rpc, frames, nsig, forced>>

\* Variant of terminate() that also resets the epoch counter.
Terminate_t259_reset ==
    /\ tpc = "idle"
    /\ nterm < MaxTerminate
    /\ nterm' = nterm + 1
    /\ stop_event' = TRUE
    /\ current_epoch' = NoEpoch
    /\ TermStep("t261")
    /\ Quiet
    /\ UNCHANGED <<since, tapped, capture_closed>>

\* Another thread calls listener.terminate(); line 259:
\* self._stop_event.set()
Terminate_t259 ==
    /\ tpc = "idle"
    /\ nterm < MaxTerminate
    /\ nterm' = nterm + 1
    /\ stop_event' = TRUE
    /\ TermStep("t261")
    /\ Quiet
    /\ UNCHANGED <<current_epoch, since, tapped, capture_closed>>

\* lines 260-263: try: self.carbon_tracker.epoch_end() except: pass
Terminate_t261 ==
    /\ tpc = "t261"
    /\ Record("epoch_end", current_epoch, "terminate")
    /\ TermStep("t264")
    /\ UNCHANGED <<state, nterm>>

\* line 264: self.carbon_tracker.stop(); terminate() returns or raises
Terminate_t264 ==
    /\ tpc = "t264"
    /\ Record("stop", NoEpoch, "terminate")
    /\ TermStep("idle")
    /\ UNCHANGED <<state, nterm>>

Terminate ==
    \/ Terminate_t259 \/ Terminate_t261 \/ Terminate_t264

\* ------------------------------------------------------- stream taps
\* Text is a sequence of characters; NL is the newline character.
NL == "\n"
Alphabet == {NL, "e", "1", "2"}
Digits == {"1", "2"}

\* The chunks of at most n characters a write(text) call may carry.
Chunks(n) == UNION {[1..k -> Alphabet] : k \in 0..n}

\* '\n' in text
HasNewline(text) == \E i \in 1..Len(text) : text[i] = NL

\* text.split('\n'): the pieces between the newlines, always at least one.
RECURSIVE Split(_)
Split(text) ==
    IF ~HasNewline(text) THEN <<text>>
    ELSE LET k == CHOOSE i \in 1..Len(text) :
                      text[i] = NL /\ \A j \in 1..(i - 1) : text[j] # NL
         IN  <<SubSeq(text, 1, k - 1)>> \o Split(SubSeq(text, k + 1, Len(text)))

\* lines.pop() returns the last piece and leaves the others in lines.
Last(lines) == lines[Len(lines)]
Front(lines) == SubSeq(lines, 1, Len(lines) - 1)

\* self.patterns, cut down to two patterns of the default list, in its
\* order: "epoch" stands for r'Epoch\s*(\d+)...' (here: an "e" followed by
\* a digit), "bracket" for r'^\[(\d+),' (here: a digit that starts the
\* line).
patterns == <<"epoch", "bracket">>
NoMatch == "none"

\* re.search(pattern, line), then match.group(1): the digit of the leftmost
\* match, or NoMatch.
Search(pattern, line) ==
    IF pattern = "epoch"
    THEN LET hits == {i \in 1..(Len(line) - 1) :
                          line[i] = "e" /\ line[i + 1] \in Digits}
         IN  IF hits = {} THEN NoMatch
             ELSE line[(CHOOSE i \in hits : \A j \in hits : i <= j) + 1]
    ELSE IF Len(line) >= 1 /\ line[1] \in Digits THEN line[1] ELSE NoMatch

\* int(match.group(1))
ToInt(d) == IF d = "1" THEN 1 ELSE 2

\* epoch_listener.py lines 55-63, the pattern loop for one line, from
\* pattern i on; raising is the set of epoch numbers on which the callback
\* raises.  The result is the sequence of numbers the callback was invoked
\* with: after a call that returns the loop breaks (line 61), after one that
\* raises `except Exception: continue` goes on with the next pattern.
RECURSIVE EL_match(_, _, _)
EL_match(line, i, raising) ==
    IF i > Len(patterns) THEN <<>>
    ELSE LET d == Search(patterns[i], line)
         IN  IF d = NoMatch THEN EL_match(line, i + 1, raising)
             ELSE IF ToInt(d) \in raising
                  THEN <<ToInt(d)>> \o EL_match(line, i + 1, raising)
                  ELSE <<ToInt(d)>>

\* carbontracker_listener.py lines 112-120, the same loop; its callback is
\* _on_epoch_detected, which returns whatever its external calls do, and
\* int() of a string of digits does not raise, so the first pattern that
\* matches makes the one call and breaks.
RECURSIVE CT_match(_, _)
CT_match(line, i) ==
    IF i > Len(patterns) THEN <<>>
    ELSE LET d == Search(patterns[i], line)
         IN  IF d = NoMatch THEN CT_match(line, i + 1) ELSE <<ToInt(d)>>

\* Variant of the tap that looks for the newline at the end of the chunk
\* only (if text.endswith('\n')).
EL_write_endswith(buffer, text, raising) ==
    LET b == buffer \o text
    IN  IF text # <<>> /\ text[Len(text)] = NL
        THEN [buffer |-> Last(Split(b)),
              lines  |-> Front(Split(b)),
              calls  |-> [i \in 1..(Len(Split(b)) - 1) |->
                             EL_match(Split(b)[i], 1, raising)]]
        ELSE [buffer |-> b, lines |-> <<>>, calls |-> <<>>]

\* epoch_listener.py lines 50-63: self.buffer += text; if '\n' in
\* self.buffer: lines = split, self.buffer = lines.pop(), pattern loop.
EL_write(buffer, text, raising) ==
    LET b == buffer \o text
    IN  IF HasNewline(b)
        THEN [buffer |-> Last(Split(b)),
              lines  |-> Front(Split(b)),
              calls  |-> [i \in 1..(Len(Split(b)) - 1) |->
                             EL_match(Split(b)[i], 1, raising)]]
        ELSE [buffer |-> b, lines |-> <<>>, calls |-> <<>>]

\* Variant of the tap that forgets the unterminated rest instead of keeping
\* it for the next write.
CT_write_drop(buffer, text) ==
    LET b == buffer \o text
    IN  IF HasNewline(text)
        THEN [buffer |-> <<>>,
              lines  |-> Front(Split(b)),
              calls  |-> [i \in 1..(Len(Split(b)) - 1) |->
                             CT_match(Split(b)[i], 1)]]
        ELSE [buffer |-> b, lines |-> <<>>, calls |-> <<>>]

\* carbontracker_listener.py lines 107-120: the same with the guard
\* if '\n' in text.
CT_write(buffer, text) ==
    LET b == buffer \o text
    IN  IF HasNewline(text)
        THEN [buffer |-> Last(Split(b)),
              lines  |-> Front(Split(b)),
              calls  |-> [i \in 1..(Len(Split(b)) - 1) |->
                             CT_match(Split(b)[i], 1)]]
        ELSE [buffer |-> b, lines |-> <<>>, calls |-> <<>>]

\* The monitored process writes one chunk; both taps receive it.  (A write
\* whose forwarding at lines 47-49 / 104-106 raises leaves the tap as it
\* was.)
Write ==
    /\ Len(written) < MaxText
    /\ \E text \in Chunks(MaxText - Len(written)), raising \in SUBSET {1, 2} :
          LET el == EL_write(el_buffer, text, raising)
              ct == CT_write(ct_buffer, text)
          IN  /\ written' = written \o text
              /\ el_buffer' = el.buffer
              /\ el_lines' = el_lines \o el.lines
              /\ el_calls' = el.calls
              /\ ct_buffer' = ct.buffer
              /\ ct_lines' = ct_lines \o ct.lines
              /\ ct_calls' = ct.calls
    /\ UNCHANGED <<listener, capture>>

\* ------------------------------------------- EpochListener capture
\* Other code assigns sys.stdout or sys.stderr after the EpochListener was
\* constructed and before it starts capturing.
Reassign ==
    /\ ~is_capturing
    /\ \E d \in Destinations :
          \/ sys_stdout' = d /\ d # sys_stdout /\ UNCHANGED sys_stderr
          \/ sys_stderr' = d /\ d # sys_stderr /\ UNCHANGED sys_stdout
    /\ UNCHANGED <<is_capturing, el_closed, prior_stdout, prior_stderr,
                   ncap, cap_op>>
    /\ UNCHANGED <<listener, taps>>

\* epoch_listener.py lines 30-70: start_capture()
StartCapture ==
    /\ ncap < MaxCaptureCalls
    /\ ncap' = ncap + 1
    /\ cap_op' = "start"
    /\ IF is_capturing
       THEN UNCHANGED <<sys_stdout, sys_stderr, is_capturing,
                        prior_stdout, prior_stderr>>
       ELSE /\ is_capturing' = TRUE
            /\ prior_stdout' = sys_stdout
            /\ prior_stderr' = sys_stderr
            /\ sys_stdout' = OutputCapture(original_stdout)
            /\ sys_stderr' = OutputCapture(original_stderr)
    /\ UNCHANGED el_closed
    /\ UNCHANGED <<listener, taps>>

\* epoch_listener.py lines 72-80: stop_capture()
StopCapture ==
    /\ ncap < MaxCaptureCalls
    /\ ncap' = ncap + 1
    /\ cap_op' = "stop"
    /\ sys_stdout' = original_stdout
    /\ sys_stderr' = original_stderr
    /\ el_closed' = TRUE
    /\ UNCHANGED <<is_capturing, prior_stdout, prior_stderr>>
    /\ UNCHANGED <<listener, taps>>

\* ------------------------------------------------------- specification
Next ==
    \/ Run
    \/ Terminate
    \/ Signal
    \/ \E t \in Threads : OnEpochDetected(t)
    \/ Tick

Spec == Init /\ [][Next]_vars

\* The scenario of the spec's testable properties: the process emits the
\* matched lines 0,1,1,2 and nothing else, and terminate() is called once
\* the last of them has been handled.
TerminateScenario ==
    \/ Terminate_t259 /\ nsig = Len(ScenarioScript) /\ cpc["writer"] = "idle"
    \/ Terminate_t261
    \/ Terminate_t264

NextScenario ==
    \/ Run
    \/ TerminateScenario
    \/ SignalScenario
    \/ \E t \in Threads : OnEpochDetected(t)
    \/ Tick

SpecScenario == Init /\ [][NextScenario]_vars

\* The monitored process prints nothing that a pattern matches: only the
\* listener thread ever enters _on_epoch_detected.
NextNoSignal ==
    \/ Run
    \/ Terminate
    \/ OnEpochDetected("run")
    \/ Tick

SpecNoSignal == Init /\ [][NextNoSignal]_vars

\* The taps on their own.
NextTap == Write

SpecTap == Init /\ [][NextTap]_vars

\* An EpochListener, the code that uses it and the code around it.
NextCapture ==
    \/ Reassign
    \/ StartCapture
    \/ StopCapture

SpecCapture == Init /\ [][NextCapture]_vars

\* ------------------------------------------------------------ claims
IsCall(c, op) == c # NoCall /\ c[1] = op
\* Thread t is past the comparison of line 145 and has not returned yet.
InTransition(t) == cpc[t] \in {"L147", "L149", "L150", "L153", "L155", "L157"}
\* Thread t takes a step of _on_epoch_detected from position l.
StepsFrom(t, l) == cpc[t] = l /\ cpc'[t] # l

\* C1: the calls on the session strictly alternate epoch_start, epoch_end,
\* epoch_start, ...: an epoch_start is never issued while an epoch is open,
\* an epoch_end only while one is open.
C1_StrictAlternation ==
    [][/\ IsCall(call', "epoch_start") => session[1] \in {"init", "epoch_end"}
       /\ IsCall(call', "epoch_end") => session[1] = "epoch_start"]_vars

\* C2: the boundary transition is one critical section: no state has the
\* listener thread and a writer thread inside _on_epoch_detected at once.
C2_Serialized ==
    ~(cpc["run"] # "idle" /\ cpc["writer"] # "idle")

\* C3: shutdown is idempotent: however often terminate() is called, the
\* session receives one final epoch_end and one stop() in total.
C3_CloseOnce ==
    nterm >= 1 => (stops <= 1 /\ closes <= 1)

\* C4: with max_epochs = 3 and the signals 0,1,1,2 followed by termination
\* (and no fallback in between), the calls on the session are exactly
\* start(0) end(0) start(1) end(1) start(2) end(2) stop.
ScenarioDone ==
    /\ nsig = Len(ScenarioScript)
    /\ cpc["writer"] = "idle"
    /\ nterm >= 1
    /\ tpc = "idle"
    /\ rpc = "done"
    /\ ~forced
C4_ScenarioCalls ==
    ScenarioDone => trace = ExpectedCalls

\* C5: each accepted epoch number yields its end/start pair once, also when
\* two threads deliver the same number at about the same time: no two
\* threads apply a transition to the same epoch number.
C5_PairOnce ==
    \A t1, t2 \in Threads :
        (t1 # t2 /\ InTransition(t1) /\ InTransition(t2)) => epoch[t1] # epoch[t2]

\* C6: once stop() has been called on the session, no epoch_start or
\* epoch_end is called on it any more.
C6_NothingAfterStop ==
    [][stops > 0 => ~(IsCall(call', "epoch_start") \/ IsCall(call', "epoch_end"))]_vars

C8_LowerIsBoundary ==
    [][\A t \in Threads :
          /\ (StepsFrom(t, "L145") /\ current_epoch >= 0 /\ epoch[t] < current_epoch)
                => cpc'[t] = "L147"
          /\ (StepsFrom(t, "L147") /\ current_epoch >= 0)
                => cpc'[t] = "L149"
          /\ StepsFrom(t, "L149")
                => call' = <<"epoch_end", current_epoch, Origin(t)>>
          /\ StepsFrom(t, "L153")
                => current_epoch' = epoch[t] /\ cpc'[t] = "L155"
          /\ StepsFrom(t, "L155")
                => cpc'[t] = "L157"
          /\ StepsFrom(t, "L157")
                => call' = <<"epoch_start", epoch[t], Origin(t)>>]_vars

\* The writer is applying a signal lower than the epoch it has just ended.
C8_Witness ==
    /\ cpc["writer"] = "L157"
    /\ current_epoch = epoch["writer"]
    /\ session[1] = "epoch_end" /\ session[2] > epoch["writer"]

C10_ThreadSurvives ==
    rpc \notin {"raised218", "raised219", "raised253"}

\* C11: with no matched signal, a fallback is decided only when a full
\* threshold has elapsed since the last boundary, and the transition it
\* forces is a complete one: epoch_end for the current epoch, current_epoch
\* raised by exactly 1, last_epoch_time refreshed (so the next fallback
\* needs a further full threshold), epoch_start for the new epoch.
C11_OneFallbackPerThreshold ==
    [][/\ rpc' = "r230" => since' >= epoch_duration_threshold
       /\ rpc = "r230" => (rpc' = "r232" => epoch'["run"] = current_epoch + 1)
       /\ StepsFrom("run", "L145") => cpc'["run"] = "L147"
       /\ StepsFrom("run", "L147") => cpc'["run"] = "L149"
       /\ StepsFrom("run", "L149")
             => call' = <<"epoch_end", current_epoch, "fallback">>
       /\ StepsFrom("run", "L153")
             => current_epoch' = current_epoch + 1 /\ cpc'["run"] = "L155"
       /\ StepsFrom("run", "L155") => since' = 0 /\ cpc'["run"] = "L157"
       /\ StepsFrom("run", "L157")
             => /\ call' = <<"epoch_start", current_epoch, "fallback">>
                /\ rpc' = "r236"]_vars

\* Two fallbacks have fired, one threshold apart: the second has just
\* started epoch 2 and the clock has been reset.
C11_Witness ==
    /\ nsig = 0
    /\ forced
    /\ rpc = "r236"
    /\ current_epoch = 2
    /\ since = 0
    /\ call = <<"epoch_start", 2, "fallback">>

\* C12: the listener stops as soon as current_epoch + 1 >= max_epochs, so
\* no epoch with an index >= max_epochs is ever started.
C12_NoEpochBeyondMax ==
    ~(IsCall(call, "epoch_start") /\ call[2] >= max_epochs)

\* C13: every epoch_end is followed by the publish of the metrics of the
\* epoch it ended: in a boundary transition also when epoch_end raised, and
\* after the final epoch_end of run()'s shutdown and of terminate().
C13_PublishEveryEnd ==
    [][/\ \A t \in Threads : StepsFrom(t, "L149") => cpc'[t] = "L150"
       /\ (rpc = "r252" /\ rpc' # rpc /\ current_epoch >= 0)
             => call' = <<"publish", current_epoch, "shutdown">>
       /\ (tpc = "t264" /\ tpc' # tpc /\ current_epoch >= 0)
             => call' = <<"publish", current_epoch, "terminate">>]_vars

\* Joining lines again: every delivered line followed by its newline.
RECURSIVE Unsplit(_)
Unsplit(lines) ==
    IF lines = <<>> THEN <<>>
    ELSE lines[1] \o <<NL>> \o Unsplit(SubSeq(lines, 2, Len(lines)))

\* C14: on each tap, after every write the lines handed to the matcher so
\* far are exactly the newline-terminated lines of everything written, once
\* each and in order, and the retained buffer is the unterminated rest:
\* lines and buffer together spell the concatenation of all chunks.
C14_Reassembly ==
    /\ el_lines = Front(Split(written)) /\ el_buffer = Last(Split(written))
    /\ ct_lines = Front(Split(written)) /\ ct_buffer = Last(Split(written))
    /\ Unsplit(el_lines) \o el_buffer = written
    /\ Unsplit(ct_lines) \o ct_buffer = written

\* Two lines were completed by a chunk that began inside the first of them,
\* and a partial third line is retained.
C14_Witness ==
    /\ Len(el_lines) = 2 /\ Len(el_calls) = 2
    /\ Len(el_lines[1]) >= 2
    /\ el_buffer # <<>>
    /\ Len(ct_lines) = 2 /\ Len(ct_calls) = 2

\* C15: stop_capture sets sys.stdout and sys.stderr back to exactly what
\* start_capture replaced, whatever other code assigned to them between the
\* construction of the EpochListener and start_capture, and closes the
\* capture file.
C15_RestoresPrior ==
    (cap_op = "stop" /\ is_capturing)
        => /\ sys_stdout = prior_stdout
           /\ sys_stderr = prior_stderr
           /\ el_closed

\* The callback invocations first-match-wins allows for a line: one, with
\* the number of the first pattern in list order that matches, or none.
FirstMatch(line) ==
    LET hits == {i \in 1..Len(patterns) : Search(patterns[i], line) # NoMatch}
    IN  IF hits = {} THEN <<>>
        ELSE <<ToInt(Search(patterns[CHOOSE i \in hits : \A j \in hits : i <= j],
                            line))>>
\* The i-th line handed to the pattern loop by the last write.
LastWriteLine(lines, calls, i) == lines[Len(lines) - Len(calls) + i]

\* C16: for every complete line the callback is invoked at most once, with
\* the number extracted by the first pattern that matches, also when the
\* callback raises; a line that matches no pattern invokes no callback.
C16_FirstMatchWins ==
    /\ \A i \in 1..Len(el_calls) :
          el_calls[i] = FirstMatch(LastWriteLine(el_lines, el_calls, i))
    /\ \A i \in 1..Len(ct_calls) :
          ct_calls[i] = FirstMatch(LastWriteLine(ct_lines, ct_calls, i))

\* C17: while the listener thread applies a fallback transition (it is past
\* the comparison of line 145 and has not yet assigned current_epoch), at
\* least one threshold has elapsed since the most recent boundary and the
\* forced number is current_epoch + 1.
C17_FallbackOnlyAfterThreshold ==
    cpc["run"] \in {"L147", "L149", "L150", "L153"}
        => /\ since >= epoch_duration_threshold
           /\ epoch["run"] = current_epoch + 1

\* C18: after terminate() the listener thread completes its shutdown on
\* every path, also when epoch_end() or stop() raises in it: the thread does
\* not end while sys.stdout / sys.stderr are still the taps or the capture
\* file is still open.
C18_ShutdownRestores ==
    (nterm >= 1 /\ rpc \in {"done", "raised252"})
        => (~tapped /\ capture_closed)

\* C19: the two taps are equivalent on every sequence of writes: the buffer
\* a write leaves holds no newline, so for the next chunk the guard
\* '\n' in text of one and '\n' in self.buffer of the other agree, and
\* after every write both have handed over the same lines in the same order
\* and retain the same buffer.
C19_TapsEquivalent ==
    [][written' # written =>
          LET text == SubSeq(written', Len(written) + 1, Len(written'))
          IN  /\ HasNewline(text) <=> HasNewline(el_buffer \o text)
              /\ HasNewline(text) <=> HasNewline(ct_buffer \o text)
              /\ ~HasNewline(el_buffer') /\ ~HasNewline(ct_buffer')
              /\ el_lines' = ct_lines'
              /\ el_buffer' = ct_buffer']_vars

\* Both guards were false for the last chunk, which went to a buffer that
\* already held the rest of an earlier chunk, after a line was delivered.
C19_Witness ==
    /\ Len(el_lines) = 1 /\ el_lines[1] # <<>>
    /\ el_calls = <<>> /\ ct_calls = <<>>
    /\ Len(el_buffer) >= 2
    /\ Len(written) = MaxText

\* C20: with no matched line and no terminate(), the loop is left only once
\* the fallback has brought current_epoch to max_epochs, and the shutdown
\* sequence then runs exactly once: when the listener thread has ended
\* after the loop, the session has received one final epoch_end and one
\* stop(), the streams are restored and the capture file is closed.
C20_FallbackTermination ==
    nterm = 0 =>
        /\ rpc \in {"r244", "r252", "r253", "r254", "done", "raised252", "raised253"}
              => current_epoch = max_epochs
        /\ stops <= 1 /\ closes <= 1
        /\ rpc \in {"done", "raised252", "raised253"}
              => (stops = 1 /\ closes = 1 /\ ~tapped /\ capture_closed)

====
